---- MODULE Spec2Model ----
(***************************************************************************)
(* HTTPClient: the CSRF token store (getCsrfToken / setCsrfToken), the     *)
(* URL builder's handling of the search parameters, and the request        *)
(* orchestrator httpRequest with its CSRF-rotation, challenge and          *)
(* transient-retry loop.                                                   *)
(***************************************************************************)
EXTENDS Integers, Sequences, FiniteSets, TLC

\* ---------------------------------------------------------------- bounds

\* largest retry budget a request descriptor carries
MaxRetries == 2
\* transport dispatches one call may make before the model stops it
MaxDispatches == MaxRetries + 2
\* httpRequest calls in flight at once on one client
NumCalls == 2
\* transport dispatches each of the calls in flight may make: these calls
\* carry no retry budget
MaxConcDispatches == MaxDispatches - MaxRetries

\* ---------------------------------------------------------------- values

\* JavaScript's undefined: an unset option, header, slot or descriptor field
Undefined == "undefined"
\* request.retries left unset
RetriesUnset == 0 - 1

RETRY_ERROR_CODES == {500, 502, 503, 504}
DEFAULT_ACCOUNT_TOKEN == "default"

\* tokens a server hands out in its CSRF-token response header
Tokens == {"t1", "t2"}
\* the data-token attribute of the page's csrf-token element
DomTokens == {"d1"}
\* a CSRF-token header the caller put on the descriptor itself
CallerTokens == {"c1"}
\* account-token identifiers; "a1" and "a2" are accounts other than the default
AccountTokens == {DEFAULT_ACCOUNT_TOKEN, "a1", "a2"}

\* the configured domains and one foreign domain, as pieces of URL text
MainDomain == "main.test"
CdnDomain == "cdn.test"
OtherDomain == "other.test"

Calls == 1..NumCalls

VARIABLES
    options,      \* this._options: the constructor options
    document,     \* globalThis.document: the token of the csrf-token element
    csrfTokens,   \* this.csrfTokens: [accounts, ip]
    request,      \* per call: the caller's descriptor object
    given,        \* per call: the value of the descriptor when the call was made
    pc,           \* per call: position in httpRequest
    isRobloxApiRequest, \* per call: local of httpRequest
    headers,      \* per call: the call-local header collection
    retries,      \* per call: local retry budget
    response,     \* per call: the response of the last dispatch
    sent,         \* per call: what the last dispatch handed to the transport
    dispatches,   \* per call: number of transport dispatches so far
    step,         \* per call: the branch the loop took on the last response
    retried,      \* per call: how often each retry branch was taken
    outcome,      \* per call: the returned Typed Response or the raised RESTError
    storeUse,     \* per call: whether the call read / wrote the CSRF store
    rotated,      \* token of the most recently processed CSRF-bearing 403
    handled,      \* per call: the record request.handleChallenge last resolved with
    lastCall      \* the last direct getCsrfToken / setCsrfToken call and its result

vars == <<options, document, csrfTokens, request, given, pc, isRobloxApiRequest,
          headers, retries, response, sent, dispatches, step, retried, outcome,
          storeUse, rotated, handled, lastCall>>

callVars == <<request, given, pc, isRobloxApiRequest, headers, retries, response,
              sent, dispatches, step, retried, outcome, storeUse, rotated, handled>>

\* ---------------------------------------------------------------- CSRF store

\* csrfTokens = { accounts: {}, ip: undefined }
EmptyStore == [accounts |-> [a \in AccountTokens |-> Undefined], ip |-> Undefined]

\* a defaulted accountToken parameter
AccountKey(accountToken) ==
    IF accountToken = Undefined THEN DEFAULT_ACCOUNT_TOKEN ELSE accountToken

\* the slot getCsrfToken looks at first
SelectedSlot(store, authorized, accountToken) ==
    IF authorized THEN store.accounts[AccountKey(accountToken)] ELSE store.ip

\* ReadsDom without the onWebsite guard
ReadsDomUnguarded(store, authorized, accountToken) ==
    /\ AccountKey(accountToken) = DEFAULT_ACCOUNT_TOKEN
    /\ authorized
    /\ SelectedSlot(store, authorized, accountToken) = Undefined

\* the condition under which getCsrfToken goes to the page DOM
ReadsDom(store, authorized, accountToken) ==
    /\ AccountKey(accountToken) = DEFAULT_ACCOUNT_TOKEN
    /\ authorized
    /\ SelectedSlot(store, authorized, accountToken) = Undefined
    /\ options.onWebsite

getCsrfToken(store, authorized, accountToken) ==
    IF ReadsDom(store, authorized, accountToken)
    THEN document
    ELSE SelectedSlot(store, authorized, accountToken)

\* setCsrfToken that writes the account slot for a call without credentials too
setCsrfTokenAnyAccount(store, value, authorized, accountToken) ==
    [accounts |-> [store.accounts EXCEPT ![AccountKey(accountToken)] = value],
     ip |-> value]

\* setCsrfToken that writes the anonymous slot only for a call without credentials
setCsrfTokenNoMirror(store, value, authorized, accountToken) ==
    [accounts |-> IF authorized
                  THEN [store.accounts EXCEPT ![AccountKey(accountToken)] = value]
                  ELSE store.accounts,
     ip |-> IF authorized THEN store.ip ELSE value]

\* setCsrfToken that keeps a token the anonymous slot already holds
setCsrfTokenFirstWins(store, value, authorized, accountToken) ==
    [accounts |-> IF authorized
                  THEN [store.accounts EXCEPT ![AccountKey(accountToken)] = value]
                  ELSE store.accounts,
     ip |-> IF store.ip = Undefined THEN value ELSE store.ip]

setCsrfToken(store, value, authorized, accountToken) ==
    [accounts |-> IF authorized
                  THEN [store.accounts EXCEPT ![AccountKey(accountToken)] = value]
                  ELSE store.accounts,
     ip |-> value]

\* ---------------------------------------------------------------- URL builder

\* String.prototype.includes on the pieces of a URL text
Includes(url, text) == \E i \in 1..Len(url) : url[i] = text

\* url.replace(REMOVE_PROTOCOL_REGEX, "")
RemoveProtocol(url) ==
    IF Len(url) > 0 /\ url[1] \in {"https://", "http://"} THEN Tail(url) ELSE url

\* hostname of the URL built from a text that names its host
TargetHost(url) == RemoveProtocol(url)[1]

\* filterObject: drop the entries whose value is null or undefined
filterObject(entries) == {e \in entries : e[2] # Undefined}

\* URLSearchParams.set on a parameter set of <<key, value>> entries
SearchSet(entries, key, value) == {e \in entries : e[1] # key} \cup {<<key, value>>}

\* the parameter set formatRequestUrl works on: the caller's own set when
\* request.search is a URLSearchParams, a fresh one otherwise
SearchBase(req) ==
    IF req.search.kind = "params" THEN req.search.entries
    ELSE IF req.search.kind = "object" THEN filterObject(req.search.entries)
    ELSE {}

WithAccountToken(req, entries) ==
    IF req.accountToken # Undefined /\ options.accountTokenSearchParam # Undefined
    THEN SearchSet(entries, options.accountTokenSearchParam, req.accountToken)
    ELSE entries

\* WithDeviceOrTracking that adds the tracking marker to tagged requests too
WithDeviceAndTracking(req, entries) ==
    LET withDevice ==
          IF req.overrideDeviceType # Undefined
             /\ options.overrideDeviceTypeHeaderName # Undefined
          THEN SearchSet(entries, options.overrideDeviceTypeHeaderName,
                         req.overrideDeviceType)
          ELSE entries
    IN  IF options.trackingSearchParam # Undefined
        THEN SearchSet(withDevice, options.trackingSearchParam, "")
        ELSE withDevice

WithDeviceOrTracking(req, entries) ==
    IF req.overrideDeviceType # Undefined
    THEN IF options.overrideDeviceTypeHeaderName # Undefined
         THEN SearchSet(entries, options.overrideDeviceTypeHeaderName,
                        req.overrideDeviceType)
         ELSE entries
    ELSE IF options.trackingSearchParam # Undefined
         THEN SearchSet(entries, options.trackingSearchParam, "")
         ELSE entries

\* the query entries formatRequestUrl appends to the URL
FormattedSearch(req) ==
    IF Includes(req.url, options.domains.cdn)
    THEN {}
    ELSE WithDeviceOrTracking(req, WithAccountToken(req, SearchBase(req)))

\* request.search after formatRequestUrl has run on the descriptor
SearchAfterFormat(req) ==
    IF ~Includes(req.url, options.domains.cdn) /\ req.search.kind = "params"
    THEN [kind |-> "params", entries |-> FormattedSearch(req)]
    ELSE req.search

\* canParseURL: a text parses on its own when it opens with a scheme; the
\* text "localhost:3000/..." does, its scheme being "localhost:"
canParseURL(url) == Len(url) > 0 /\ url[1] \in {"https://", "http://", "localhost:"}

\* URL.hostname of an authority piece: the port is not part of it
HostName(piece) == IF piece = "localhost:" THEN "localhost" ELSE piece

\* new URL(text) of a text that parses on its own
ParseUrl(url) ==
    IF url[1] = "localhost:"
    THEN [protocol |-> "localhost:", hostname |-> ""]
    ELSE [protocol |-> IF url[1] = "https://" THEN "https:" ELSE "http:",
          hostname |-> HostName(url[2])]

\* new URL(`${protocol}://${url.replace(REMOVE_PROTOCOL_REGEX, "")}`), protocol "https"
PrefixedUrl(url) ==
    [protocol |-> "https:", hostname |-> HostName(RemoveProtocol(url)[1])]

\* new URL(url, location.href)
ResolvedUrl(url, location) ==
    IF url[1] = "/" THEN [protocol |-> location.protocol, hostname |-> location.hostname]
    ELSE ParseUrl(url)

\* the URL before the query entries and the development rewrite
BaseUrl(req, location) ==
    IF req.url[1] = "/"
       \/ (canParseURL(req.url) /\ options.isDev /\ req.url[1] # "localhost:")
    THEN ResolvedUrl(req.url, location)
    ELSE PrefixedUrl(req.url)

\* "Force http if requesting localhost"
ForceHttp(url) ==
    IF options.isDev /\ url.hostname = "localhost" /\ url.protocol = "https:"
    THEN [url EXCEPT !.protocol = "http:"]
    ELSE url

\* formatRequestUrl(request): protocol, hostname and query entries of the result
formatRequestUrl(req, location) ==
    IF Includes(req.url, options.domains.cdn)
    THEN LET url == IF canParseURL(req.url) THEN ParseUrl(req.url)
                    ELSE PrefixedUrl(req.url)
         IN  [protocol |-> url.protocol, hostname |-> url.hostname, search |-> {}]
    ELSE LET url == ForceHttp(BaseUrl(req, location))
         IN  [protocol |-> url.protocol, hostname |-> url.hostname,
              search |-> FormattedSearch(req)]

\* ---------------------------------------------------------------- header assembler

\* the text Headers.set stores for the value undefined
UndefinedText == "'undefined'"

\* overrideDeviceTypeToUserAgent[tag], which Headers.set turns into the text
\* "undefined" for a tag the mapping lacks
MappedUserAgent(tag) ==
    LET mapping == options.overrideDeviceTypeToUserAgent[1]
    IN  IF tag \in DOMAIN mapping THEN mapping[tag] ELSE UndefinedText

\* the user-agent header handleRequestHeaders leaves in the collection
UserAgent(req) ==
    IF req.overrideDeviceType # Undefined
    THEN IF options.overrideDeviceTypeToUserAgent # <<>>
            /\ options.overrideDeviceTypeHeaderName = Undefined
         THEN MappedUserAgent(req.overrideDeviceType)
         ELSE req.headers.userAgent
    ELSE IF options.trackingUserAgent # Undefined
            /\ options.trackingSearchParam = Undefined
         THEN options.trackingUserAgent
         ELSE req.headers.userAgent

\* handleRequestHeaders(request, contentType) with no signer configured
handleRequestHeaders(req, contentType) ==
    [csrf |-> req.headers.csrf, userAgent |-> UserAgent(req),
     contentType |-> IF contentType # Undefined THEN contentType
                     ELSE req.headers.contentType]

\* ---------------------------------------------------------------- responses

StatusCodes == {200, 403, 404, 501, 503}
Challenges == {"ch1", "ch2"}
RatelimitLimits == {"100"}

\* header texts, character by character
RemainingText == <<"4", "2">>
ResetText == <<"1", "7", "0", "0", "0", "0", "0", "0", "0", "0">>

\* what the transport answers: status, CSRF-token header, whether the three
\* challenge headers are there, the rate-limit headers (limit as a whole text,
\* remaining and reset as <<>> when absent and <<text>> when present) and the
\* content-length header
Responses ==
    [code : StatusCodes, csrf : Tokens \cup {Undefined}, challenge : BOOLEAN,
     limit : RatelimitLimits \cup {Undefined}, remaining : {<<RemainingText>>},
     reset : {<<ResetText>>}, contentLength : {Undefined}]

NoResponse ==
    [code |-> 0, csrf |-> Undefined, challenge |-> FALSE, limit |-> Undefined,
     remaining |-> <<>>, reset |-> <<>>, contentLength |-> Undefined,
     body |-> Undefined]

\* Response.ok
Ok(resp) == resp.code >= 200 /\ resp.code <= 299

\* a number as Number.parseInt gives it: <<>> for NaN, <<n>> for the integer n
NaN == <<>>
Num(n) == <<n>>

DigitChars == {"0", "1", "2", "3", "4", "5", "6", "7", "8", "9"}

DigitValue(ch) ==
    CASE ch = "0" -> 0 [] ch = "1" -> 1 [] ch = "2" -> 2 [] ch = "3" -> 3
      [] ch = "4" -> 4 [] ch = "5" -> 5 [] ch = "6" -> 6 [] ch = "7" -> 7
      [] ch = "8" -> 8 [] ch = "9" -> 9

RECURSIVE SkipWhitespace(_)
SkipWhitespace(text) ==
    IF text # <<>> /\ Head(text) = " " THEN SkipWhitespace(Tail(text)) ELSE text

\* the value of the longest run of digits the text opens with, after acc
RECURSIVE ParseDigits(_, _)
ParseDigits(text, acc) ==
    IF text = <<>> \/ Head(text) \notin DigitChars THEN acc
    ELSE ParseDigits(Tail(text), 10 * acc + DigitValue(Head(text)))

\* headers.get(name) as Number.parseInt reads it: null becomes the text "null"
HeaderString(header) == IF header = <<>> THEN <<"n", "u", "l", "l">> ELSE header[1]

\* Number.parseInt(text, 10): leading whitespace and one sign are skipped, the
\* digits up to the first other character are read, no digit at all gives NaN
ParseInt(text) ==
    LET trimmed == SkipWhitespace(text)
        signed == trimmed # <<>> /\ Head(trimmed) \in {"+", "-"}
        digits == IF signed THEN Tail(trimmed) ELSE trimmed
    IN  IF digits = <<>> \/ Head(digits) \notin DigitChars THEN NaN
        ELSE IF signed /\ Head(trimmed) = "-" THEN Num(0 - ParseDigits(digits, 0))
        ELSE Num(ParseDigits(digits, 0))

\* parseRatelimitHeaders that wants all three headers
parseRatelimitHeadersStrict(resp) ==
    IF resp.limit = Undefined \/ resp.remaining = <<>> \/ resp.reset = <<>>
    THEN <<>>
    ELSE <<[_limit |-> resp.limit,
            remaining |-> ParseInt(HeaderString(resp.remaining)),
            reset |-> ParseInt(HeaderString(resp.reset))]>>

\* <<>> for no snapshot
parseRatelimitHeaders(resp) ==
    IF resp.limit = Undefined THEN <<>>
    ELSE <<[_limit |-> resp.limit,
            remaining |-> ParseInt(HeaderString(resp.remaining)),
            reset |-> ParseInt(HeaderString(resp.reset))]>>

\* the decoder parseBody picks for an expected kind
Decoder(expect) ==
    IF expect \in {"json", Undefined} THEN "JSON.parse"
    ELSE IF expect = "jsonWithBigInts" THEN "JSONv2.parse"
    ELSE IF expect = "dom" THEN "DOMParser"
    ELSE expect

\* parseBody that decodes the body of a 204
parseBodyOf204(req, resp) ==
    IF req.expect = "none" \/ resp.contentLength = "0"
    THEN Undefined
    ELSE Decoder(req.expect)

\* HTTPResponse.parseBody: Undefined, or the decoder whose value the body is
parseBody(req, resp) ==
    IF req.expect = "none" \/ resp.contentLength = "0" \/ resp.code = 204
    THEN Undefined
    ELSE Decoder(req.expect)

\* ---------------------------------------------------------------- httpRequest

\* request.method ?? "GET"
Method(req) == IF req.method = Undefined THEN "GET" ELSE req.method

\* request.url.toString().includes(this._options.domains.main)
IsRobloxApiRequest(req) == Includes(req.url, options.domains.main)

\* WantsCsrf decided by the method alone
WantsCsrfByMethod(req) == Method(req) # "GET"

\* request.includeCsrf ?? (request.includeCsrf === undefined && method !== "GET")
WantsCsrf(req) ==
    IF req.includeCsrf # Undefined
    THEN req.includeCsrf = "true"
    ELSE Method(req) # "GET"

\* the token the pre-loop takes from the store, Undefined when it takes none
StoreSupplied(req, store) ==
    IF IsRobloxApiRequest(req) /\ WantsCsrf(req)
    THEN getCsrfToken(store, req.includeCredentials, req.accountToken)
    ELSE Undefined

\* the call-local header collection when the loop is entered
InitialHeaders(req, store) ==
    [csrf |-> IF StoreSupplied(req, store) # Undefined
              THEN StoreSupplied(req, store)
              ELSE req.headers.csrf,
     challenge |-> Undefined]

\* the 403 branch: rotate the store and dispatch again
IsCsrfRotation(isRoblox, resp) ==
    isRoblox /\ resp.code = 403 /\ resp.csrf # Undefined

\* the challenge branch up to the call of request.handleChallenge
AsksChallengeHandler(isRoblox, req, resp) ==
    isRoblox /\ ~Ok(resp) /\ req.handleChallenge /\ resp.challenge

\* IsHandledError testing for the default mode by name, so that an unset or
\* "BEDEV2" mode is taken for "none"
IsHandledErrorByName(req, resp) == req.errorHandling = "BEDEV1" /\ ~Ok(resp)

\* IsHandledError without the test of the error-handling mode
IsHandledErrorAnyMode(req, resp) == ~Ok(resp)

\* request.errorHandling !== "none" && !response.status.ok
IsHandledError(req, resp) == req.errorHandling # "none" /\ ~Ok(resp)

\* IsTransientRetry that takes every 5xx status for a transient one
IsTransientRetryAny5xx(budget, resp) ==
    budget # RetriesUnset /\ budget > 0 /\ resp.code >= 500

\* IsTransientRetry with the budget test off by one (retries >= 0)
IsTransientRetryOffByOne(budget, resp) ==
    budget # RetriesUnset /\ budget >= 0 /\ resp.code \in RETRY_ERROR_CODES

\* retries && retries > 0 && RETRY_ERROR_CODES.includes(response.status.code)
IsTransientRetry(budget, resp) ==
    budget # RetriesUnset /\ budget > 0 /\ resp.code \in RETRY_ERROR_CODES

\* the descriptor _httpRequest gets: {...request, expect: "none", headers}
AsDispatched(req) == [req EXCEPT !.expect = "none"]

\* the Typed Response _httpRequest wraps a transport answer in
DispatchedResponse(req, resp) ==
    [code |-> resp.code, csrf |-> resp.csrf, challenge |-> resp.challenge,
     limit |-> resp.limit, remaining |-> resp.remaining, reset |-> resp.reset,
     contentLength |-> resp.contentLength,
     body |-> parseBody(AsDispatched(req), resp)]

\* new RESTError(message, true, errors, code, response, ratelimitHeaders)
RESTError(req, resp) ==
    [kind |-> "raised", isHttpError |-> TRUE, httpCode |-> resp.code,
     ok |-> Ok(resp), ratelimit |-> parseRatelimitHeaders(resp),
     parser |-> IF req.errorHandling = Undefined THEN "BEDEV1" ELSE req.errorHandling,
     body |-> parseBody(AsDispatched(req), resp)]

\* HTTPResponse.init(request, response._response, ratelimitHeaders, camelizeObject)
TypedResponse(req, resp) ==
    [kind |-> "returned", isHttpError |-> FALSE, httpCode |-> resp.code,
     ok |-> Ok(resp), ratelimit |-> parseRatelimitHeaders(resp),
     parser |-> Undefined, body |-> parseBody(req, resp)]

NoOutcome ==
    [kind |-> "none", isHttpError |-> FALSE, httpCode |-> 0, ok |-> FALSE,
     ratelimit |-> <<>>, parser |-> Undefined, body |-> Undefined]

NoRetries == [csrf |-> 0, challenge |-> 0, transient |-> 0]

\* RotatedHeaders that rotates the store but leaves the header collection alone
RotatedHeadersStale(hdrs, csrfToken) == hdrs

\* headers.set(CSRF_TOKEN_HEADER_NAME, csrfToken) after a rotation
RotatedHeaders(hdrs, csrfToken) == [hdrs EXCEPT !.csrf = csrfToken]

\* ChallengeHeaders that starts a fresh collection for the retry
ChallengeHeadersFresh(hdrs, newChallenge) ==
    [csrf |-> Undefined, challenge |-> newChallenge]

\* the three headers.set calls of a challenge retry, the record standing for
\* its type, id and metadata
ChallengeHeaders(hdrs, newChallenge) == [hdrs EXCEPT !.challenge = newChallenge]

NoSent == [csrf |-> Undefined, challenge |-> Undefined, search |-> {}]

\* httpRequest up to the loop: defaults, header clone, store read
Call(c, req) ==
    /\ pc[c] = "idle"
    /\ request' = [request EXCEPT ![c] = req]
    /\ given' = [given EXCEPT ![c] = req]
    /\ isRobloxApiRequest' = [isRobloxApiRequest EXCEPT ![c] = IsRobloxApiRequest(req)]
    /\ headers' = [headers EXCEPT ![c] = InitialHeaders(req, csrfTokens)]
    /\ storeUse' = [storeUse EXCEPT ![c] =
                      [read |-> IsRobloxApiRequest(req) /\ WantsCsrf(req),
                       supplied |-> StoreSupplied(req, csrfTokens) # Undefined,
                       wrote |-> FALSE]]
    /\ retries' = [retries EXCEPT ![c] = req.retries]
    /\ response' = [response EXCEPT ![c] = NoResponse]
    /\ sent' = [sent EXCEPT ![c] = NoSent]
    /\ dispatches' = [dispatches EXCEPT ![c] = 0]
    /\ step' = [step EXCEPT ![c] = "none"]
    /\ retried' = [retried EXCEPT ![c] = NoRetries]
    /\ outcome' = [outcome EXCEPT ![c] = NoOutcome]
    /\ handled' = [handled EXCEPT ![c] = Undefined]
    /\ pc' = [pc EXCEPT ![c] = "dispatch"]
    /\ UNCHANGED <<options, document, csrfTokens, rotated, lastCall>>

\* _httpRequest({...request, expect: "none", headers}) up to the transport call:
\* formatRequestUrl works on request.search itself
Dispatch(c, limit) ==
    /\ pc[c] = "dispatch"
    /\ dispatches[c] < limit
    /\ sent' = [sent EXCEPT ![c] =
                  [csrf |-> headers[c].csrf, challenge |-> headers[c].challenge,
                   search |-> FormattedSearch(request[c])]]
    /\ request' = [request EXCEPT ![c].search = SearchAfterFormat(request[c])]
    /\ dispatches' = [dispatches EXCEPT ![c] = @ + 1]
    /\ pc' = [pc EXCEPT ![c] = "await"]
    /\ UNCHANGED <<options, document, csrfTokens, given, isRobloxApiRequest, headers,
                   retries, response, step, retried, outcome, storeUse, rotated,
                   handled, lastCall>>

\* Settle whose transient retry leaves the budget as it is
SettleNoDecrement(c, resp) ==
    IF IsHandledError(request[c], resp)
    THEN IF IsTransientRetry(retries[c], resp)
         THEN /\ step' = [step EXCEPT ![c] = "transient"]
              /\ retried' = [retried EXCEPT ![c].transient = @ + 1]
              /\ pc' = [pc EXCEPT ![c] = "dispatch"]
              /\ UNCHANGED <<retries, outcome>>
         ELSE /\ outcome' = [outcome EXCEPT ![c] = RESTError(request[c], resp)]
              /\ step' = [step EXCEPT ![c] = "fail"]
              /\ pc' = [pc EXCEPT ![c] = "raised"]
              /\ UNCHANGED <<retries, retried>>
    ELSE /\ outcome' = [outcome EXCEPT ![c] = TypedResponse(request[c], resp)]
         /\ step' = [step EXCEPT ![c] = "succeed"]
         /\ pc' = [pc EXCEPT ![c] = "returned"]
         /\ UNCHANGED <<retries, retried>>

\* the error-handling tail of the loop body: retry, raise or return
Settle(c, resp) ==
    IF IsHandledError(request[c], resp)
    THEN IF IsTransientRetry(retries[c], resp)
         THEN /\ retries' = [retries EXCEPT ![c] = @ - 1]
              /\ step' = [step EXCEPT ![c] = "transient"]
              /\ retried' = [retried EXCEPT ![c].transient = @ + 1]
              /\ pc' = [pc EXCEPT ![c] = "dispatch"]
              /\ UNCHANGED outcome
         ELSE /\ outcome' = [outcome EXCEPT ![c] = RESTError(request[c], resp)]
              /\ step' = [step EXCEPT ![c] = "fail"]
              /\ pc' = [pc EXCEPT ![c] = "raised"]
              /\ UNCHANGED <<retries, retried>>
    ELSE /\ outcome' = [outcome EXCEPT ![c] = TypedResponse(request[c], resp)]
         /\ step' = [step EXCEPT ![c] = "succeed"]
         /\ pc' = [pc EXCEPT ![c] = "returned"]
         /\ UNCHANGED <<retries, retried>>

\* the transport answers and the loop body runs up to its next suspension
Respond(c, resp) ==
    /\ pc[c] = "await"
    /\ response' = [response EXCEPT ![c] = DispatchedResponse(request[c], resp)]
    /\ IF IsCsrfRotation(isRobloxApiRequest[c], resp)
       THEN /\ csrfTokens' = setCsrfToken(csrfTokens, resp.csrf,
                                          request[c].includeCredentials,
                                          request[c].accountToken)
            /\ headers' = [headers EXCEPT ![c] = RotatedHeaders(@, resp.csrf)]
            /\ storeUse' = [storeUse EXCEPT ![c].wrote = TRUE]
            /\ rotated' = resp.csrf
            /\ step' = [step EXCEPT ![c] = "csrf"]
            /\ retried' = [retried EXCEPT ![c].csrf = @ + 1]
            /\ pc' = [pc EXCEPT ![c] = "dispatch"]
            /\ UNCHANGED <<retries, outcome>>
       ELSE /\ IF AsksChallengeHandler(isRobloxApiRequest[c], request[c], resp)
               THEN /\ pc' = [pc EXCEPT ![c] = "challenge"]
                    /\ UNCHANGED <<retries, outcome, step, retried>>
               ELSE Settle(c, resp)
            /\ UNCHANGED <<csrfTokens, headers, storeUse, rotated>>
    /\ UNCHANGED <<options, document, request, given, isRobloxApiRequest, sent,
                   dispatches, handled, lastCall>>

\* request.handleChallenge resolves: with a new record, or with nothing
HandlerReturn(c, newChallenge) ==
    /\ pc[c] = "challenge"
    /\ IF newChallenge # Undefined
       THEN /\ headers' = [headers EXCEPT ![c] = ChallengeHeaders(@, newChallenge)]
            /\ handled' = [handled EXCEPT ![c] = newChallenge]
            /\ step' = [step EXCEPT ![c] = "challenge"]
            /\ retried' = [retried EXCEPT ![c].challenge = @ + 1]
            /\ pc' = [pc EXCEPT ![c] = "dispatch"]
            /\ UNCHANGED <<retries, outcome>>
       ELSE /\ Settle(c, response[c])
            /\ UNCHANGED <<headers, handled>>
    /\ UNCHANGED <<options, document, csrfTokens, request, given, isRobloxApiRequest,
                   response, sent, dispatches, storeUse, rotated, lastCall>>

\* ---------------------------------------------------------------- direct store calls

NoCall ==
    [op |-> "none", value |-> Undefined, authorized |-> FALSE,
     accountToken |-> Undefined, result |-> Undefined, readDom |-> FALSE]

\* client.getCsrfToken(authorized, accountToken)
GetCsrfToken(authorized, accountToken) ==
    /\ lastCall' = [op |-> "get", value |-> Undefined, authorized |-> authorized,
                    accountToken |-> accountToken,
                    result |-> getCsrfToken(csrfTokens, authorized, accountToken),
                    readDom |-> ReadsDom(csrfTokens, authorized, accountToken)]
    /\ UNCHANGED <<options, document, csrfTokens>>
    /\ UNCHANGED callVars

\* client.setCsrfToken(value, authorized, accountToken)
SetCsrfToken(value, authorized, accountToken) ==
    /\ csrfTokens' = setCsrfToken(csrfTokens, value, authorized, accountToken)
    /\ lastCall' = [op |-> "set", value |-> value, authorized |-> authorized,
                    accountToken |-> accountToken, result |-> Undefined,
                    readDom |-> FALSE]
    /\ UNCHANGED <<options, document>>
    /\ UNCHANGED callVars

\* client.formatRequestUrl(request), the page being at location
FormatRequestUrl(req, location) ==
    /\ lastCall' = [op |-> "formatRequestUrl", request |-> req,
                    location |-> location,
                    result |-> formatRequestUrl(req, location)]
    /\ UNCHANGED <<options, document, csrfTokens>>
    /\ UNCHANGED callVars

\* client.handleRequestHeaders(request, contentType)
HandleRequestHeaders(req, contentType) ==
    /\ lastCall' = [op |-> "handleRequestHeaders", request |-> req,
                    contentType |-> contentType,
                    result |-> handleRequestHeaders(req, contentType)]
    /\ UNCHANGED <<options, document, csrfTokens>>
    /\ UNCHANGED callVars

\* client.parseRatelimitHeaders(headers)
ParseRatelimitHeaders(hdrs) ==
    /\ lastCall' = [op |-> "parseRatelimitHeaders", headers |-> hdrs,
                    result |-> parseRatelimitHeaders(hdrs)]
    /\ UNCHANGED <<options, document, csrfTokens>>
    /\ UNCHANGED callVars

\* ---------------------------------------------------------------- inputs

MainUrl == <<MainDomain, "/", "v1">>
SchemeMainUrl == <<"https://", MainDomain, "/", "v1">>
OtherUrl == <<OtherDomain, "/", "v1">>
\* a foreign host whose query string holds the main domain's text
OtherQueryUrl == <<OtherDomain, "/", "v1", "?", "next=", MainDomain>>
CdnUrl == <<CdnDomain, "/", "img">>

Domains == [main |-> MainDomain, cdn |-> CdnDomain]

\* a client outside the browser, with no query-parameter names configured
PlainOptions ==
    [domains |-> Domains, onWebsite |-> FALSE, accountTokenSearchParam |-> Undefined,
     overrideDeviceTypeHeaderName |-> Undefined, trackingSearchParam |-> Undefined,
     overrideDeviceTypeToUserAgent |-> <<>>, trackingUserAgent |-> Undefined,
     isDev |-> FALSE]

\* a client embedded in the website, with every query-parameter name configured
WebOptions ==
    [domains |-> Domains, onWebsite |-> TRUE, accountTokenSearchParam |-> "acct",
     overrideDeviceTypeHeaderName |-> "device", trackingSearchParam |-> "track",
     overrideDeviceTypeToUserAgent |-> <<>>, trackingUserAgent |-> Undefined,
     isDev |-> FALSE]

BaseRequest ==
    [url |-> MainUrl, method |-> Undefined, includeCsrf |-> Undefined,
     includeCredentials |-> FALSE, accountToken |-> Undefined,
     retries |-> RetriesUnset, errorHandling |-> Undefined,
     handleChallenge |-> FALSE, expect |-> Undefined,
     headers |-> [csrf |-> Undefined, userAgent |-> Undefined,
                  contentType |-> Undefined],
     search |-> [kind |-> "undefined", entries |-> {}],
     overrideDeviceType |-> Undefined]

RetryBudgets == {RetriesUnset} \cup (0..MaxRetries)

\* descriptors that vary what the retry / raise / return policy reads
PolicyRequests ==
    {[BaseRequest EXCEPT !.url = u, !.method = "POST", !.retries = n,
                         !.errorHandling = e, !.handleChallenge = h] :
        u \in {MainUrl, OtherUrl}, n \in RetryBudgets,
        e \in {Undefined, "BEDEV2", "none"}, h \in BOOLEAN}

\* descriptors with a challenge handler: with and without the pre-loop store
\* read, to the main host and to a foreign host whose URL text holds the main
\* domain
HandlerRequests ==
    {[BaseRequest EXCEPT !.method = "POST", !.includeCsrf = i, !.retries = 1,
                         !.handleChallenge = TRUE] :
        i \in {Undefined, "false"}}
    \cup
    {[BaseRequest EXCEPT !.url = OtherQueryUrl, !.method = "POST", !.retries = 1,
                         !.errorHandling = e, !.handleChallenge = TRUE] :
        e \in {Undefined, "none"}}

\* descriptors that vary what the CSRF pre-loop reads, on the main host
HeaderRequests ==
    {[BaseRequest EXCEPT !.method = m, !.includeCsrf = i,
                         !.includeCredentials = a, !.accountToken = t,
                         !.headers.csrf = h] :
        m \in {Undefined, "POST"}, i \in {Undefined, "true", "false"},
        a \in BOOLEAN, t \in {Undefined, "a1"},
        h \in CallerTokens \cup {Undefined}}

\* descriptors that vary the target URL
HostRequests ==
    {[BaseRequest EXCEPT !.url = u, !.method = "POST", !.includeCredentials = a] :
        u \in {MainUrl, SchemeMainUrl, OtherUrl, OtherQueryUrl, CdnUrl},
        a \in BOOLEAN}

CsrfRequests == HeaderRequests \cup HostRequests

\* descriptors of calls that share the store
ConcRequests ==
    {[BaseRequest EXCEPT !.method = "POST"],
     [BaseRequest EXCEPT !.method = "POST", !.includeCredentials = TRUE],
     [BaseRequest EXCEPT !.method = "POST", !.includeCredentials = TRUE,
                         !.accountToken = "a1"]}

SearchObjects ==
    {[kind |-> "undefined", entries |-> {}],
     [kind |-> "object", entries |-> {<<"q", "1">>, <<"n", Undefined>>}],
     [kind |-> "params", entries |-> {<<"q", "1">>}]}

\* descriptors that vary what the URL builder reads
FrameRequests ==
    {[BaseRequest EXCEPT !.url = u, !.accountToken = t, !.search = s,
                         !.overrideDeviceType = d] :
        u \in {MainUrl, CdnUrl}, t \in {Undefined, "a1"}, s \in SearchObjects,
        d \in {Undefined, "phone"}}

\* answers whose rate-limit header comes without a CSRF-token header
PolicyResponses == {r \in Responses : r.csrf = Undefined \/ r.limit = Undefined}

\* answers without challenge or rate-limit headers
PlainResponses == {r \in Responses : ~r.challenge /\ r.limit = Undefined}

\* a rotation, or a success
ConcResponses == {r \in PlainResponses : r.code \in {200, 403} /\ (r.code = 403) = (r.csrf # Undefined)}

\* every store the accounts default and "a1" can have left behind
SeededStores ==
    {[accounts |-> [a \in AccountTokens |->
                       IF a = DEFAULT_ACCOUNT_TOKEN THEN d
                       ELSE IF a = "a1" THEN t ELSE Undefined],
      ip |-> i] :
        d \in Tokens \cup {Undefined}, t \in Tokens \cup {Undefined},
        i \in Tokens \cup {Undefined}}

\* ---------------------------------------------------------------- specifications

InitCalls ==
    /\ request = [c \in Calls |-> BaseRequest]
    /\ given = [c \in Calls |-> BaseRequest]
    /\ pc = [c \in Calls |-> "idle"]
    /\ isRobloxApiRequest = [c \in Calls |-> FALSE]
    /\ headers = [c \in Calls |-> [csrf |-> Undefined, challenge |-> Undefined]]
    /\ retries = [c \in Calls |-> RetriesUnset]
    /\ response = [c \in Calls |-> NoResponse]
    /\ sent = [c \in Calls |-> NoSent]
    /\ dispatches = [c \in Calls |-> 0]
    /\ step = [c \in Calls |-> "none"]
    /\ retried = [c \in Calls |-> NoRetries]
    /\ outcome = [c \in Calls |-> NoOutcome]
    /\ storeUse = [c \in Calls |-> [read |-> FALSE, supplied |-> FALSE, wrote |-> FALSE]]
    /\ rotated = Undefined
    /\ handled = [c \in Calls |-> Undefined]

\* a client outside the browser has no document; the embedded one has the page's
Environment ==
    \/ options = PlainOptions /\ document = Undefined
    \/ options = WebOptions /\ document \in DomTokens

\* new HTTPClient(options), outside the browser
Init ==
    /\ options = PlainOptions
    /\ document = Undefined
    /\ csrfTokens = EmptyStore
    /\ lastCall = NoCall
    /\ InitCalls

\* one httpRequest call on a fresh client: the loop and its policy
Next ==
    \/ \E req \in PolicyRequests \cup HandlerRequests : Call(1, req)
    \/ Dispatch(1, MaxDispatches)
    \/ \E resp \in PolicyResponses : Respond(1, resp)
    \/ \E ch \in Challenges \cup {Undefined} : HandlerReturn(1, ch)

Spec == Init /\ [][Next]_vars

\* one httpRequest call on a fresh client, in either environment: the URL
\* builder at work on the descriptor
InitFrame ==
    /\ Environment
    /\ csrfTokens = EmptyStore
    /\ lastCall = NoCall
    /\ InitCalls

NextFrame ==
    \/ \E req \in FrameRequests : Call(1, req)
    \/ Dispatch(1, MaxDispatches)
    \/ \E resp \in PlainResponses : Respond(1, resp)

SpecFrame == InitFrame /\ [][NextFrame]_vars

\* one httpRequest call on a client whose store earlier calls have filled
InitCsrf ==
    /\ Environment
    /\ csrfTokens \in SeededStores
    /\ lastCall = NoCall
    /\ InitCalls

NextCsrf ==
    \/ \E req \in CsrfRequests : Call(1, req)
    \/ Dispatch(1, MaxDispatches)
    \/ \E resp \in PlainResponses : Respond(1, resp)

SpecCsrf == InitCsrf /\ [][NextCsrf]_vars

\* NumCalls httpRequest calls in flight on one client
NextConc ==
    \E c \in Calls :
        \/ \E req \in ConcRequests : Call(c, req)
        \/ Dispatch(c, MaxConcDispatches)
        \/ \E resp \in ConcResponses : Respond(c, resp)

SpecConc == Init /\ [][NextConc]_vars

\* direct calls of the store's accessors
InitStore ==
    /\ options \in {[PlainOptions EXCEPT !.onWebsite = w] : w \in BOOLEAN}
    /\ document \in DomTokens \cup {Undefined}
    /\ csrfTokens = EmptyStore
    /\ lastCall = NoCall
    /\ InitCalls

NextStore ==
    \/ \E a \in BOOLEAN, t \in AccountTokens \cup {Undefined} : GetCsrfToken(a, t)
    \/ \E v \in Tokens \cup {Undefined}, a \in BOOLEAN,
          t \in AccountTokens \cup {Undefined} : SetCsrfToken(v, a, t)

SpecStore == InitStore /\ [][NextStore]_vars

\* ---- one call whose transport and challenge handler always answer, with
\* ---- finitely many CSRF-bearing 403s and handler records

\* the re-dispatches without a budget that fit under MaxDispatches
MaxUnbudgeted == MaxDispatches - MaxRetries - 1

Unbudgeted(c) == retried[c].csrf + retried[c].challenge

\* the transport answers; with a CSRF-bearing 403 only finitely often
FiniteRespond(c) ==
    \E resp \in PolicyResponses :
        /\ IsCsrfRotation(isRobloxApiRequest[c], resp) => Unbudgeted(c) < MaxUnbudgeted
        /\ Respond(c, resp)

\* the handler resolves; with a new record only finitely often
FiniteHandlerReturn(c) ==
    \E ch \in Challenges \cup {Undefined} :
        /\ ch # Undefined => Unbudgeted(c) < MaxUnbudgeted
        /\ HandlerReturn(c, ch)

NextLive ==
    \/ \E req \in PolicyRequests \cup HandlerRequests : Call(1, req)
    \/ Dispatch(1, MaxDispatches)
    \/ FiniteRespond(1)
    \/ FiniteHandlerReturn(1)

\* the loop runs on after each await; every dispatch is answered; the handler
\* resolves
Fairness ==
    /\ WF_vars(Dispatch(1, MaxDispatches))
    /\ WF_vars(FiniteRespond(1))
    /\ WF_vars(FiniteHandlerReturn(1))

SpecLive == Init /\ [][NextLive]_vars /\ Fairness

\* ---- calls that vary the expected kind and the body the answer carries

ExpectKinds ==
    {"json", "jsonWithBigInts", "text", "arrayBuffer", "blob", "formData", "dom",
     "none"}

BodyRequests ==
    {[BaseRequest EXCEPT !.method = "POST", !.expect = k, !.errorHandling = e,
                         !.retries = n] :
        k \in ExpectKinds \cup {Undefined}, e \in {Undefined, "none"},
        n \in {RetriesUnset, 1}}

BodyResponses ==
    {[code |-> k, csrf |-> t, challenge |-> FALSE, limit |-> Undefined,
      remaining |-> <<>>, reset |-> <<>>, contentLength |-> l] :
        k \in {200, 204, 403, 404, 503}, t \in {Undefined, "t1"},
        l \in {Undefined, "0", "12"}}

NextBody ==
    \/ \E req \in BodyRequests : Call(1, req)
    \/ Dispatch(1, MaxDispatches)
    \/ \E resp \in BodyResponses : Respond(1, resp)

SpecBody == Init /\ [][NextBody]_vars

\* ---- direct calls of the rate-limit parser

RemainingTexts ==
    {<<>>, <<RemainingText>>, <<<<>>>>, <<<<"4", "2", "a">>>>, <<<<"x", "1">>>>,
     <<<<" ", "7">>>>, <<<<"-", "1">>>>, <<<<"0", "0", "9">>>>}

ResetTexts ==
    {<<>>, <<ResetText>>, <<<<"s", "o", "o", "n">>>>, <<<<"1", "2", ".", "5">>>>,
     <<<<"+", "5">>>>}

RatelimitHeaders ==
    [limit : RatelimitLimits \cup {Undefined, ""}, remaining : RemainingTexts,
     reset : ResetTexts]

NextRatelimit == \E hdrs \in RatelimitHeaders : ParseRatelimitHeaders(hdrs)

SpecRatelimit == Init /\ [][NextRatelimit]_vars

\* ---- direct calls of the URL builder and the header assembler

\* request URL texts: absolute, host-relative, bare host and path, with the
\* CDN domain as host or further inside the text
UrlTexts ==
    {<<"https://", "localhost", "/", "v1">>, <<"http://", "localhost", "/", "v1">>,
     <<"https://", "localhost:", "3000", "/", "v1">>,
     <<"localhost", "/", "v1">>, <<"localhost:", "3000", "/", "v1">>,
     <<"/", "v1">>, MainUrl, SchemeMainUrl, CdnUrl,
     <<"https://", CdnDomain, "/", "img">>,
     <<"localhost", "/", "proxy", "/", CdnDomain, "/", "img">>,
     <<"https://", "localhost", "/", "proxy", "/", CdnDomain, "/", "img">>,
     <<"http://", "localhost", "/", "proxy", "/", CdnDomain, "/", "img">>}

\* where the page is: location.protocol and location.hostname
Locations ==
    {[protocol |-> "https:", hostname |-> "localhost"],
     [protocol |-> "http:", hostname |-> "localhost"],
     [protocol |-> "https:", hostname |-> MainDomain]}

DeviceTypes == {"phone", "tablet"}
DeviceUserAgents == [phone |-> "ua-phone"]
ContentTypes == {"application/json"}

\* descriptors that vary what the URL builder reads
UrlRequests ==
    {[BaseRequest EXCEPT !.url = u, !.accountToken = t, !.overrideDeviceType = d] :
        u \in UrlTexts, t \in {Undefined, "a1"}, d \in {Undefined, "phone"}}

\* descriptors that vary what the header assembler reads
AssemblerRequests ==
    {[BaseRequest EXCEPT !.overrideDeviceType = d, !.headers.userAgent = a] :
        d \in DeviceTypes \cup {Undefined}, a \in {Undefined, "ua-caller"}}

BuildOptions ==
    {[PlainOptions EXCEPT !.isDev = v, !.accountTokenSearchParam = "acct",
                          !.overrideDeviceTypeHeaderName = h,
                          !.trackingSearchParam = s,
                          !.overrideDeviceTypeToUserAgent = m,
                          !.trackingUserAgent = g] :
        v \in BOOLEAN, h \in {Undefined, "device"},
        s \in {Undefined, "track"}, m \in {<<>>, <<DeviceUserAgents>>},
        g \in {Undefined, "ua-track"}}

InitBuild ==
    /\ options \in BuildOptions
    /\ document = Undefined
    /\ csrfTokens = EmptyStore
    /\ lastCall = NoCall
    /\ InitCalls

NextBuild ==
    \/ \E req \in UrlRequests, location \in Locations : FormatRequestUrl(req, location)
    \/ \E req \in AssemblerRequests, t \in ContentTypes \cup {Undefined} :
          HandleRequestHeaders(req, t)

SpecBuild == InitBuild /\ [][NextBuild]_vars

\* ---------------------------------------------------------------- properties

\* the retry budget a descriptor configures, unset counted as 0
Budget(req) == IF req.retries = RetriesUnset THEN 0 ELSE req.retries

\* the call has evaluated response[c] (it is not waiting for the transport or
\* for the challenge handler)
Evaluated(c) == pc[c] \in {"dispatch", "returned", "raised"} /\ response[c].code # 0

\* no CSRF rotation and no challenge retry has happened in the call
OnlyTransient(c) == retried[c].csrf = 0 /\ retried[c].challenge = 0

\* C1: with errorHandling other than "none" and retries = n, a call whose every
\* response is non-ok with a code in {500, 502, 503, 504}, and that had no CSRF
\* rotation or challenge retry, dispatches again while it has made at most n
\* dispatches and raises the REST error after dispatch n+1; an ok response ends
\* the call at once with that response returned.
C1_RetryBudget ==
    \A c \in Calls :
        /\ ( /\ given[c].errorHandling # "none"
             /\ Evaluated(c)
             /\ OnlyTransient(c)
             /\ response[c].code \in {500, 502, 503, 504} )
           => IF dispatches[c] <= Budget(given[c])
              THEN pc[c] = "dispatch" /\ retried[c].transient = dispatches[c]
              ELSE /\ pc[c] = "raised"
                   /\ outcome[c].kind = "raised"
                   /\ dispatches[c] = Budget(given[c]) + 1
        /\ Ok(response[c])
           => /\ pc[c] = "returned"
              /\ outcome[c].kind = "returned"
              /\ outcome[c].httpCode = response[c].code

\* a 503 on each of three dispatches with retries = 2: raised after the third
C1_Witness ==
    \E c \in Calls :
        /\ given[c].retries = 2
        /\ given[c].errorHandling # "none"
        /\ OnlyTransient(c)
        /\ response[c].code = 503
        /\ dispatches[c] = 3
        /\ pc[c] = "raised"

C4_NonOkRaises ==
    \A c \in Calls :
        given[c].errorHandling # "none"
        => /\ pc[c] = "returned" => outcome[c].ok /\ Ok(response[c])
           /\ (pc[c] \in {"returned", "raised"} /\ ~Ok(response[c]))
              => /\ pc[c] = "raised"
                 /\ outcome[c].kind = "raised"
                 /\ outcome[c].isHttpError
                 /\ outcome[c].httpCode = response[c].code
                 /\ outcome[c].ratelimit =
                        IF response[c].limit = Undefined
                        THEN <<>>
                        ELSE <<[_limit |-> response[c].limit,
                                remaining |-> Num(42),
                                reset |-> Num(1700000000)]>>

\* a 404 with a rate-limit header, raised on the second dispatch
C4_Witness ==
    \E c \in Calls :
        /\ given[c].errorHandling = Undefined
        /\ pc[c] = "raised"
        /\ dispatches[c] = 2
        /\ response[c].code = 404
        /\ response[c].limit = "100"
        /\ outcome[c].httpCode = 404
        /\ outcome[c].ratelimit[1]._limit = "100"

\* C5: with errorHandling "none", a non-ok response that is not a CSRF-bearing
\* 403 on the main host and was not resolved by the challenge handler ends the
\* call: it is returned as a Typed Response with ok false, nothing is raised,
\* no further dispatch is made and the retry budget is untouched.
C5_NoneReturns ==
    \A c \in Calls :
        ( /\ given[c].errorHandling = "none"
          /\ Evaluated(c)
          /\ ~Ok(response[c])
          /\ ~( /\ TargetHost(given[c].url) = MainDomain
                /\ response[c].code = 403
                /\ response[c].csrf # Undefined )
          /\ step[c] # "challenge" )
        => /\ pc[c] = "returned"
           /\ outcome[c].kind = "returned"
           /\ ~outcome[c].ok
           /\ outcome[c].httpCode = response[c].code
           /\ retries[c] = given[c].retries
           /\ dispatches[c] = 1 + retried[c].csrf + retried[c].challenge

\* a 503 returned from the only dispatch although the budget is 2
C5_Witness ==
    \E c \in Calls :
        /\ given[c].errorHandling = "none"
        /\ given[c].retries = 2
        /\ response[c].code = 503
        /\ pc[c] = "returned"
        /\ ~outcome[c].ok
        /\ dispatches[c] = 1

\* C3: right after setCsrfToken(token, true, acct), whatever the store held
\* before, getCsrfToken(true, acct) and getCsrfToken(false) both give token.
C3_SetThenGet ==
    ( /\ lastCall.op = "set"
      /\ lastCall.authorized
      /\ lastCall.value \in Tokens )
    => /\ getCsrfToken(csrfTokens, TRUE, lastCall.accountToken) = lastCall.value
       /\ getCsrfToken(csrfTokens, FALSE, Undefined) = lastCall.value

\* a set for account "a1" on a store that holds other tokens elsewhere
C3_Witness ==
    /\ lastCall.op = "set"
    /\ lastCall.authorized
    /\ lastCall.value = "t2"
    /\ lastCall.accountToken = "a1"
    /\ csrfTokens.accounts[DEFAULT_ACCOUNT_TOKEN] = "t1"
    /\ csrfTokens.accounts["a1"] = "t2"
    /\ csrfTokens.ip = "t2"

\* C6: the caller's request descriptor is, at every point of the call, equal
\* to its value when the call was made.
C6_DescriptorUnchanged == \A c \in Calls : request[c] = given[c]

\* C7: a call whose target host is not the main API host neither reads the
\* CSRF store for its headers, nor is dispatched with a header the store
\* supplied, nor writes the store.
C7_OnlyMainHostUsesStore ==
    \A c \in Calls :
        (pc[c] # "idle" /\ TargetHost(given[c].url) # MainDomain)
        => /\ ~storeUse[c].read
           /\ ~storeUse[c].supplied
           /\ ~storeUse[c].wrote

\* the slot a descriptor selects: the account's when includeCredentials is
\* true, the anonymous one otherwise
SlotOf(req) ==
    IF req.includeCredentials
    THEN csrfTokens.accounts[IF req.accountToken = Undefined
                             THEN DEFAULT_ACCOUNT_TOKEN
                             ELSE req.accountToken]
    ELSE csrfTokens.ip

\* the first dispatch of call c is with the transport and nothing has come back
FirstDispatch(c) == pc[c] = "await" /\ dispatches[c] = 1

Rotates(c) == pc[c] = "await" /\ step'[c] = "csrf" /\ pc'[c] = "dispatch"

\* C9: under every interleaving of the calls, each account id maps to one
\* token or none; a rotation leaves the token of its response in the anonymous
\* slot and, for a call with credentials, in that account's slot; the anonymous
\* slot always holds the token of the last rotation; and a slot that holds a
\* token never becomes empty.
C9_LastWriteWins ==
    [][/\ csrfTokens'.accounts \in [AccountTokens -> Tokens \cup {Undefined}]
       /\ csrfTokens'.ip \in Tokens \cup {Undefined}
       /\ \A c \in Calls :
             Rotates(c)
             => /\ csrfTokens'.ip = response'[c].csrf
                /\ request[c].includeCredentials
                   => csrfTokens'.accounts[AccountKey(request[c].accountToken)]
                          = response'[c].csrf
       /\ rotated' # Undefined => csrfTokens'.ip = rotated'
       /\ csrfTokens.ip # Undefined => csrfTokens'.ip # Undefined
       /\ \A a \in AccountTokens :
             csrfTokens.accounts[a] # Undefined => csrfTokens'.accounts[a] # Undefined
      ]_vars

\* two calls in flight have both rotated, with different tokens: the later
\* one's token is in the anonymous slot, the earlier one's in its account's
C9_Witness ==
    /\ step[1] = "csrf"
    /\ step[2] = "csrf"
    /\ request[1].includeCredentials
    /\ request[1].accountToken = "a1"
    /\ ~request[2].includeCredentials
    /\ response[1].csrf = "t1"
    /\ response[2].csrf = "t2"
    /\ csrfTokens.accounts["a1"] = "t1"
    /\ csrfTokens.ip = "t2"
    /\ rotated = "t2"

\* C10: a getCsrfToken call reads the DOM only when authorized is true, the
\* account id is the default one, the account's slot is empty and onWebsite is
\* set; in every other case its result is the selected slot's value; and it
\* leaves the store as it was.
C10_GetReadsDomOnlyGuarded ==
    [][(lastCall'.op = "get" /\ lastCall' # lastCall)
       => LET call == lastCall'
              defaulted == call.accountToken \in {Undefined, DEFAULT_ACCOUNT_TOKEN}
              guarded == /\ call.authorized
                         /\ defaulted
                         /\ csrfTokens.accounts[DEFAULT_ACCOUNT_TOKEN] = Undefined
                         /\ options.onWebsite
          IN  /\ csrfTokens' = csrfTokens
              /\ call.readDom <=> guarded
              /\ guarded => call.result = document
              /\ ~guarded =>
                    call.result =
                        IF call.authorized
                        THEN csrfTokens.accounts[IF call.accountToken = Undefined
                                                 THEN DEFAULT_ACCOUNT_TOKEN
                                                 ELSE call.accountToken]
                        ELSE csrfTokens.ip
      ]_vars

\* a get that took the token from the page
C10_Witness ==
    /\ lastCall.op = "get"
    /\ lastCall.readDom
    /\ options.onWebsite
    /\ lastCall.result = "d1"
    /\ csrfTokens.ip = "t1"


\* ---------------------------------------------------------------- C11

\* C11: in development mode, whenever the URL the builder returns has the host
\* "localhost", its scheme is "http", whatever the request URL looked like.
C11_LocalhostIsHttp ==
    (lastCall.op = "formatRequestUrl" /\ options.isDev
       /\ lastCall.result.hostname = "localhost")
    => lastCall.result.protocol = "http:"

\* ---------------------------------------------------------------- C12

DeviceEntries(entries) ==
    {e \in entries : e[1] = options.overrideDeviceTypeHeaderName}

TrackingEntries(entries) ==
    {e \in entries : e[1] = options.trackingSearchParam}

\* C12 as stated: for a request with a device-override tag, an override
\* header-name being configured, the built URL has no query entry under that
\* name; and a tracking marker is there only for a request without a tag, a
\* tracking-parameter name being configured.
C12_NoDeviceEntry ==
    lastCall.op = "formatRequestUrl" =>
      /\ (lastCall.request.overrideDeviceType # Undefined
            /\ options.overrideDeviceTypeHeaderName # Undefined)
         => DeviceEntries(lastCall.result.search) = {}
      /\ TrackingEntries(lastCall.result.search) # {}
         => (lastCall.request.overrideDeviceType = Undefined
               /\ options.trackingSearchParam # Undefined)

\* C12 amended: for a request whose URL text does not hold the CDN domain, a
\* device-override tag and a configured override header-name put exactly the
\* entry <<header-name, tag>> into the query string; the tracking marker, with
\* an empty value, is there exactly when the request has no tag and a
\* tracking-parameter name is configured; a URL text holding the CDN domain
\* gets no query entry at all.
C12_DeviceEntryInQuery ==
    lastCall.op = "formatRequestUrl" =>
      LET req == lastCall.request
          search == lastCall.result.search
      IN  IF Includes(req.url, options.domains.cdn)
          THEN search = {}
          ELSE /\ (req.overrideDeviceType # Undefined
                     /\ options.overrideDeviceTypeHeaderName # Undefined)
                  => DeviceEntries(search)
                       = {<<options.overrideDeviceTypeHeaderName, req.overrideDeviceType>>}
               /\ (req.overrideDeviceType = Undefined
                     /\ options.trackingSearchParam # Undefined)
                  => TrackingEntries(search) = {<<options.trackingSearchParam, "">>}
               /\ TrackingEntries(search) # {}
                  => (req.overrideDeviceType = Undefined
                        /\ options.trackingSearchParam # Undefined)

C12_Witness ==
    /\ lastCall.op = "formatRequestUrl"
    /\ lastCall.request.overrideDeviceType = "phone"
    /\ options.overrideDeviceTypeHeaderName = "device"
    /\ options.trackingSearchParam = "track"
    /\ lastCall.result.search = {<<"device", "phone">>}

\* ---------------------------------------------------------------- C13

\* C13: the assembler sets user-agent from the device mapping when the request
\* has a device-override tag, a mapping is configured and no override
\* header-name is; in every other case with a tracking user-agent configured
\* and no tracking query-parameter name, a tagged request included, it sets
\* user-agent to the tracking user-agent.
C13_UserAgent ==
    lastCall.op = "handleRequestHeaders" =>
      LET req == lastCall.request
          fromMapping == /\ req.overrideDeviceType # Undefined
                         /\ options.overrideDeviceTypeToUserAgent # <<>>
                         /\ options.overrideDeviceTypeHeaderName = Undefined
      IN  /\ fromMapping
             => lastCall.result.userAgent
                  = IF req.overrideDeviceType \in DOMAIN DeviceUserAgents
                    THEN DeviceUserAgents[req.overrideDeviceType]
                    ELSE UndefinedText
          /\ (~fromMapping /\ options.trackingUserAgent # Undefined
                /\ options.trackingSearchParam = Undefined)
             => lastCall.result.userAgent = options.trackingUserAgent


\* ---------------------------------------------------------------- C14

\* C14: the response of every dispatch of the loop, and the response a raised
\* REST error carries, has an undefined body; the returned Typed Response has
\* an undefined body exactly when the descriptor expects "none", or the answer
\* has content-length "0", or its status is 204 - so a body is decoded at most
\* once in a call, for the response that is returned.
C14_BodyUndefined ==
    \A c \in Calls :
        /\ response[c].body = Undefined
        /\ pc[c] = "raised" => outcome[c].body = Undefined
        /\ pc[c] = "returned"
           => ((outcome[c].body = Undefined)
                 <=> (given[c].expect = "none" \/ response[c].contentLength = "0"
                        \/ response[c].code = 204))
        /\ pc[c] \notin {"raised", "returned"} => outcome[c].body = Undefined

\* a decoded body returned after a rotation, whose response was not decoded
C14_Witness ==
    \E c \in Calls :
        /\ pc[c] = "returned"
        /\ retried[c].csrf = 1
        /\ given[c].expect = "text"
        /\ response[c].contentLength = "12"
        /\ response[c].body = Undefined
        /\ outcome[c].body = "text"

\* ---------------------------------------------------------------- C15

\* the integer a text of digits only writes in base 10
RECURSIVE DecimalValue(_)
DecimalValue(text) ==
    IF text = <<>> THEN 0
    ELSE 10 * DecimalValue(SubSeq(text, 1, Len(text) - 1))
         + DigitValue(text[Len(text)])

IsDecimal(header) ==
    /\ header # <<>>
    /\ header[1] # <<>>
    /\ \A i \in 1..Len(header[1]) : header[1][i] \in DigitChars

\* C15: parseRatelimitHeaders returns no snapshot exactly when the limit
\* header is absent; otherwise the snapshot's limit is the header text, its
\* remaining and reset are the base-10 integers their headers write, and a
\* header that is absent or opens with no digit gives NaN, the call still
\* returning a snapshot.
C15_Snapshot ==
    lastCall.op = "parseRatelimitHeaders" =>
      LET hdrs == lastCall.headers
          result == lastCall.result
      IN  /\ (result = <<>>) <=> (hdrs.limit = Undefined)
          /\ hdrs.limit # Undefined
             => /\ Len(result) = 1
                /\ result[1]._limit = hdrs.limit
                /\ IsDecimal(hdrs.remaining)
                   => result[1].remaining = Num(DecimalValue(hdrs.remaining[1]))
                /\ IsDecimal(hdrs.reset)
                   => result[1].reset = Num(DecimalValue(hdrs.reset[1]))
                /\ hdrs.remaining \in {<<>>, <<<<>>>>, <<<<"x", "1">>>>}
                   => result[1].remaining = NaN
                /\ hdrs.reset \in {<<>>, <<<<"s", "o", "o", "n">>>>}
                   => result[1].reset = NaN
          /\ (hdrs.limit = "100" /\ hdrs.remaining = <<RemainingText>>
                /\ hdrs.reset = <<ResetText>>)
             => result = <<[_limit |-> "100", remaining |-> Num(42),
                            reset |-> Num(1700000000)]>>

\* a snapshot for a response whose remaining header is missing
C15_Witness ==
    /\ lastCall.op = "parseRatelimitHeaders"
    /\ lastCall.headers.limit = "100"
    /\ lastCall.headers.remaining = <<>>
    /\ lastCall.headers.reset = <<ResetText>>
    /\ lastCall.result = <<[_limit |-> "100", remaining |-> NaN,
                            reset |-> Num(1700000000)]>>


\* ---------------------------------------------------------------- C16

\* C16: in a call, every dispatch made after a CSRF rotation carries the token
\* of the call's most recent rotation, and every dispatch made after the
\* challenge handler resolved with a record carries the record it resolved
\* with last - whatever the dispatch was re-issued for.
C16_HeadersPersist ==
    \A c \in Calls :
        pc[c] = "await"
        => /\ retried[c].csrf > 0 => sent[c].csrf = rotated
           /\ handled[c] # Undefined => sent[c].challenge = handled[c]

\* the dispatch re-issued for a transient retry, after a challenge retry that
\* followed a rotation, of a request with includeCsrf false
C16_Witness ==
    \E c \in Calls :
        /\ pc[c] = "await"
        /\ given[c].includeCsrf = "false"
        /\ step[c] = "transient"
        /\ retried[c] = [csrf |-> 1, challenge |-> 1, transient |-> 1]
        /\ rotated = "t2"
        /\ sent[c].csrf = "t2"
        /\ sent[c].challenge = "ch1"

\* ---------------------------------------------------------------- C17

\* C17: while the challenge handler is running, the request is to the main API
\* host, the response is not ok and has challenge headers, a handler was
\* supplied, and the response is not a 403 with a CSRF-token header; a
\* re-dispatch for a new record carries the record and leaves the retry budget
\* as it was; a handler that resolves with nothing hands the same response to
\* the retry / raise / return policy.
C17_ChallengeHandler ==
    [][\A c \in Calls :
          /\ pc'[c] = "challenge"
             => /\ TargetHost(given'[c].url) = MainDomain
                /\ ~Ok(response'[c])
                /\ given'[c].handleChallenge
                /\ response'[c].challenge
                /\ ~(response'[c].code = 403 /\ response'[c].csrf # Undefined)
          /\ (pc[c] = "challenge" /\ pc'[c] # "challenge")
             => /\ response'[c] = response[c]
                /\ IF step'[c] = "challenge"
                   THEN /\ pc'[c] = "dispatch"
                        /\ headers'[c].challenge \in Challenges
                        /\ headers'[c].csrf = headers[c].csrf
                        /\ retries'[c] = retries[c]
                   ELSE /\ step'[c] \in {"transient", "fail", "succeed"}
                        /\ headers'[c] = headers[c]
                        /\ (step'[c] = "transient")
                             = (/\ given[c].errorHandling # "none"
                                /\ retries[c] > 0
                                /\ response[c].code \in {500, 502, 503, 504})
                        /\ (step'[c] = "succeed")
                             = (given[c].errorHandling = "none")]_vars

\* ---------------------------------------------------------------- C19

\* C19: with errorHandling other than "none", a non-ok response with a status
\* outside {500, 502, 503, 504} that the loop takes neither for a CSRF rotation
\* nor for a challenge retry ends the call with the REST error raised for that
\* response: no further dispatch, the retry budget left as it was.
C19_NonRetryableRaises ==
    [][\A c \in Calls :
          ( /\ pc[c] \in {"await", "challenge"}
            /\ pc'[c] \notin {"await", "challenge"}
            /\ given[c].errorHandling # "none"
            /\ ~Ok(response'[c])
            /\ response'[c].code \notin {500, 502, 503, 504}
            /\ step'[c] \notin {"csrf", "challenge"} )
          => /\ pc'[c] = "raised"
             /\ outcome'[c].kind = "raised"
             /\ outcome'[c].httpCode = response'[c].code
             /\ retries'[c] = retries[c]
             /\ dispatches'[c] = dispatches[c]
             /\ retried'[c] = retried[c]]_vars

\* a 501 raised on the first dispatch with the whole budget left
C19_Witness ==
    \E c \in Calls :
        /\ pc[c] = "raised"
        /\ given[c].retries = MaxRetries
        /\ retries[c] = MaxRetries
        /\ response[c].code = 501
        /\ dispatches[c] = 1
        /\ outcome[c].httpCode = 501


\* ---------------------------------------------------------------- C20

\* C20: a rotation leaves every slot it does not target as it was: for a
\* request without credentials every per-account entry, for a request of
\* account A every per-account entry but A's; it writes the anonymous slot and,
\* with credentials, A's slot.
C20_OtherSlotsUnchanged ==
    [][\A c \in Calls :
          Rotates(c)
          => \A a \in AccountTokens :
                IF request[c].includeCredentials
                   /\ a = AccountKey(request[c].accountToken)
                THEN csrfTokens'.accounts[a] = response'[c].csrf
                ELSE csrfTokens'.accounts[a] = csrfTokens.accounts[a]]_vars

\* account "a1" has rotated to "t2" while the default account still holds "t1"
C20_Witness ==
    \E c \in Calls :
        /\ step[c] = "csrf"
        /\ pc[c] = "dispatch"
        /\ request[c].includeCredentials
        /\ request[c].accountToken = "a1"
        /\ response[c].csrf = "t2"
        /\ csrfTokens.accounts["a1"] = "t2"
        /\ csrfTokens.accounts[DEFAULT_ACCOUNT_TOKEN] = "t1"
        /\ csrfTokens.ip = "t2"


\* ---------------------------------------------------------------- C18

Terminal(c) == pc[c] \in {"returned", "raised"}

\* C18: a call whose dispatches are all answered, with finitely many
\* CSRF-bearing 403s and handler records, ends: returned with a Typed Response
\* or raised with a REST error, and stays as it ended; it never makes more
\* transient re-dispatches than its retry budget; and a CSRF-bearing 403 on a
\* request the loop takes for a main-API one always leads to another dispatch
\* with the budget untouched, so a server answering only with those keeps the
\* call dispatching.
C18_Terminates ==
    /\ \A c \in Calls : (pc[c] # "idle") ~> Terminal(c)
    /\ [](\A c \in Calls :
            /\ retried[c].transient <= Budget(given[c])
            /\ pc[c] = "returned" => outcome[c].kind = "returned"
            /\ pc[c] = "raised" => outcome[c].kind = "raised" /\ outcome[c].isHttpError)
    /\ [][\A c \in Calls :
            /\ Terminal(c) => pc'[c] = pc[c] /\ outcome'[c] = outcome[c]
            /\ ( /\ pc[c] = "await"
                 /\ pc'[c] # "await"
                 /\ isRobloxApiRequest[c]
                 /\ response'[c].code = 403
                 /\ response'[c].csrf # Undefined )
               => /\ pc'[c] = "dispatch"
                  /\ retries'[c] = retries[c]
                  /\ retried'[c].transient = retried[c].transient]_vars

\* raised after a rotation and as many transient retries as the budget allows
C18_Witness ==
    \E c \in Calls :
        /\ pc[c] = "raised"
        /\ given[c].retries = MaxRetries
        /\ retried[c] = [csrf |-> 1, challenge |-> 0, transient |-> MaxRetries]
        /\ dispatches[c] = MaxDispatches

====
